---- MODULE Spec2Model ----
(***************************************************************************)
(* Model of src/modules/hunting/cves.py (kube-hunter): the CveUtils        *)
(* version helpers, CveUtils.is_vulnerable, and the two CVE hunters.       *)
(*                                                                         *)
(* A Python str is a sequence of one-character strings.  The version       *)
(* objects of the `packaging` library are records                          *)
(*   [type |-> "Version",       _version |-> [release |-> <<..>>, post]]   *)
(*   [type |-> "LegacyVersion", _version |-> <the str>]                    *)
(* The strings of the model are written over the characters 0-9 . - v g d; *)
(* over these characters PEP 440 admits exactly  v? N(.N)* (-N)?  .        *)
(***************************************************************************)
EXTENDS Integers, Sequences, FiniteSets, TLC

VARIABLES pc, fix_versions, check_version, raised, vulnerable, compared,
          hunter, event, published

vars == <<pc, fix_versions, check_version, raised, vulnerable, compared,
          hunter, event, published>>

(***************************************************************************)
(* Python str primitives                                                   *)
(***************************************************************************)
DigitChars == <<"0", "1", "2", "3", "4", "5", "6", "7", "8", "9">>

LowerChars == <<"a", "b", "c", "d", "e", "f", "g", "h", "i", "j", "k", "l", "m",
                "n", "o", "p", "q", "r", "s", "t", "u", "v", "w", "x", "y", "z">>

IsDigit(c) == \E k \in 1..10 : DigitChars[k] = c

IsLower(c) == \E k \in 1..26 : LowerChars[k] = c

DigitVal(c) == (CHOOSE k \in 1..10 : DigitChars[k] = c) - 1

\* ord(c) for the characters that occur in version strings and legacy parts
Ord(c) ==
    IF IsDigit(c) THEN 48 + DigitVal(c)
    ELSE IF IsLower(c) THEN 96 + (CHOOSE k \in 1..26 : LowerChars[k] = c)
    ELSE IF c = "*" THEN 42
    ELSE IF c = "-" THEN 45
    ELSE IF c = "." THEN 46
    ELSE 64    \* "@"

\* s1 < s2 on Python str: code-point lexicographic, a proper prefix is smaller
RECURSIVE StrLess(_, _)
StrLess(s1, s2) ==
    IF s2 = <<>> THEN FALSE
    ELSE IF s1 = <<>> THEN TRUE
    ELSE IF Head(s1) = Head(s2) THEN StrLess(Tail(s1), Tail(s2))
    ELSE Ord(Head(s1)) < Ord(Head(s2))

AllDigits(s) == \A k \in 1..Len(s) : IsDigit(s[k])

\* int(s) for a non-empty string of digits
RECURSIVE IntOf(_)
IntOf(s) ==
    IF s = <<>> THEN 0
    ELSE 10 * IntOf(SubSeq(s, 1, Len(s) - 1)) + DigitVal(s[Len(s)])

\* str(n) for n >= 0
RECURSIVE StrOfNat(_)
StrOfNat(n) ==
    IF n < 10 THEN <<DigitChars[n + 1]>>
    ELSE StrOfNat(n \div 10) \o <<DigitChars[(n % 10) + 1]>>

\* s.split('.')
RECURSIVE Split(_)
Split(s) ==
    IF \A k \in 1..Len(s) : s[k] # "." THEN <<s>>
    ELSE LET d == CHOOSE k \in 1..Len(s) :
                      s[k] = "." /\ \A j \in 1..(k - 1) : s[j] # "."
         IN  <<SubSeq(s, 1, d - 1)>> \o Split(SubSeq(s, d + 1, Len(s)))

\* '.'.join(parts)
RECURSIVE Join(_)
Join(parts) ==
    IF parts = <<>> THEN <<>>
    ELSE IF Len(parts) = 1 THEN parts[1]
    ELSE parts[1] \o <<".">> \o Join(Tail(parts))

\* s.strip('v'): every leading and every trailing 'v' is removed
RECURSIVE StripV(_)
StripV(s) ==
    IF s = <<>> THEN s
    ELSE IF Head(s) = "v" THEN StripV(Tail(s))
    ELSE IF s[Len(s)] = "v" THEN StripV(SubSeq(s, 1, Len(s) - 1))
    ELSE s

\* seq[:n]
Take(seq, n) == SubSeq(seq, 1, IF Len(seq) < n THEN Len(seq) ELSE n)

\* map(str, release)
StrEach(release) == [k \in 1..Len(release) |-> StrOfNat(release[k])]

(***************************************************************************)
(* packaging.version                                                       *)
(***************************************************************************)
NoPost == -1

\* the part of s after an optional leading 'v' (VERSION_PATTERN: v?)
AfterV(s) == IF s # <<>> /\ Head(s) = "v" THEN Tail(s) ELSE s

HasDash(s) == \E k \in 1..Len(s) : s[k] = "-"

FirstDash(s) == CHOOSE k \in 1..Len(s) : s[k] = "-" /\ \A j \in 1..(k - 1) : s[j] # "-"

\* the release part and the implicit post part ("-N") of a candidate version
ReleaseText(s) == IF HasDash(AfterV(s)) THEN SubSeq(AfterV(s), 1, FirstDash(AfterV(s)) - 1)
                  ELSE AfterV(s)

PostText(s) == SubSeq(AfterV(s), FirstDash(AfterV(s)) + 1, Len(AfterV(s)))

\* [0-9]+(\.[0-9]+)*
IsRelease(s) == LET segs == Split(s)
                IN  \A k \in 1..Len(segs) : segs[k] # <<>> /\ AllDigits(segs[k])

\* Version(s) does not raise InvalidVersion
IsValidVersion(s) ==
    /\ IsRelease(ReleaseText(s))
    /\ HasDash(AfterV(s)) => (PostText(s) # <<>> /\ AllDigits(PostText(s)))

Version(s) ==
    LET segs == Split(ReleaseText(s))
    IN  [type |-> "Version",
         _version |-> [release |-> [k \in 1..Len(segs) |-> IntOf(segs[k])],
                       post |-> IF HasDash(AfterV(s)) THEN IntOf(PostText(s)) ELSE NoPost]]

LegacyVersion(s) == [type |-> "LegacyVersion", _version |-> s]

\* version.parse: Version(s), or LegacyVersion(s) on InvalidVersion
parse(s) == IF IsValidVersion(s) THEN Version(s) ELSE LegacyVersion(s)

IsLegacy(v) == v.type = "LegacyVersion"

\* re.split of _legacy_version_component_re: runs of digits, runs of letters,
\* and each '.' and '-' on its own
RECURSIVE Components(_)
Components(s) ==
    IF s = <<>> THEN <<>>
    ELSE LET SameRun(c) == (IsDigit(Head(s)) /\ IsDigit(c)) \/ (IsLower(Head(s)) /\ IsLower(c))
             n == IF \A k \in 1..Len(s) : SameRun(s[k]) THEN Len(s)
                  ELSE (CHOOSE k \in 1..Len(s) :
                            ~SameRun(s[k]) /\ \A j \in 1..(k - 1) : SameRun(s[j])) - 1
             m == IF n = 0 THEN 1 ELSE n
         IN  <<SubSeq(s, 1, m)>> \o Components(SubSeq(s, m + 1, Len(s)))

\* _legacy_version_replacement_map.get(part, part)
Replacement(part) ==
    IF part = <<"p", "r", "e">> THEN <<"c">>
    ELSE IF part = <<"p", "r", "e", "v", "i", "e", "w">> THEN <<"c">>
    ELSE IF part = <<"-">> THEN <<"f", "i", "n", "a", "l", "-">>
    ELSE IF part = <<"r", "c">> THEN <<"c">>
    ELSE IF part = <<"d", "e", "v">> THEN <<"@">>
    ELSE part

StarFinal == <<"*", "f", "i", "n", "a", "l">>

StarFinalDash == <<"*", "f", "i", "n", "a", "l", "-">>

Zeros8 == <<"0", "0", "0", "0", "0", "0", "0", "0">>

\* part.zfill(8)
RECURSIVE ZFill8(_)
ZFill8(s) == IF Len(s) >= 8 THEN s ELSE ZFill8(<<"0">> \o s)

\* parse_version_parts
RECURSIVE PartsOf(_)
PartsOf(comps) ==
    IF comps = <<>> THEN <<StarFinal>>
    ELSE LET part == Replacement(Head(comps))
         IN  IF part = <<".">> THEN PartsOf(Tail(comps))
             ELSE IF IsDigit(Head(part)) THEN <<ZFill8(part)>> \o PartsOf(Tail(comps))
             ELSE <<<<"*">> \o part>> \o PartsOf(Tail(comps))

parse_version_parts(s) == PartsOf(Components(s))

RECURSIVE PopWhile(_, _)
PopWhile(parts, x) ==
    IF parts # <<>> /\ parts[Len(parts)] = x
    THEN PopWhile(SubSeq(parts, 1, Len(parts) - 1), x)
    ELSE parts

\* the loop of legacy_cmpkey: parts accumulated so far, parts still to come
RECURSIVE CmpKeyLoop(_, _)
CmpKeyLoop(parts, rest) ==
    IF rest = <<>> THEN parts
    ELSE LET part == Head(rest)
             p1 == IF Head(part) = "*" /\ StrLess(part, StarFinal)
                   THEN PopWhile(parts, StarFinalDash) ELSE parts
             p2 == IF Head(part) = "*" THEN PopWhile(p1, Zeros8) ELSE p1
         IN  CmpKeyLoop(Append(p2, part), Tail(rest))

legacy_cmpkey(s) == CmpKeyLoop(<<>>, parse_version_parts(s))

\* Version._key release: trailing zeros dropped
RECURSIVE StripZeros(_)
StripZeros(release) ==
    IF release # <<>> /\ release[Len(release)] = 0
    THEN StripZeros(SubSeq(release, 1, Len(release) - 1))
    ELSE release

\* tuple comparison of release tuples
RECURSIVE IntTupleLess(_, _)
IntTupleLess(t1, t2) ==
    IF t2 = <<>> THEN FALSE
    ELSE IF t1 = <<>> THEN TRUE
    ELSE IF Head(t1) = Head(t2) THEN IntTupleLess(Tail(t1), Tail(t2))
    ELSE Head(t1) < Head(t2)

\* tuple comparison of legacy part tuples
RECURSIVE PartsLess(_, _)
PartsLess(t1, t2) ==
    IF t2 = <<>> THEN FALSE
    ELSE IF t1 = <<>> THEN TRUE
    ELSE IF Head(t1) = Head(t2) THEN PartsLess(Tail(t1), Tail(t2))
    ELSE StrLess(Head(t1), Head(t2))

\* _BaseVersion.__lt__: self._key < other._key; a LegacyVersion has epoch -1
VersionLess(v1, v2) ==
    IF IsLegacy(v1) /\ IsLegacy(v2)
    THEN PartsLess(legacy_cmpkey(v1._version), legacy_cmpkey(v2._version))
    ELSE IF IsLegacy(v1) THEN TRUE
    ELSE IF IsLegacy(v2) THEN FALSE
    ELSE LET r1 == StripZeros(v1._version.release)
             r2 == StripZeros(v2._version.release)
         IN  IF r1 = r2 THEN v1._version.post < v2._version.post
             ELSE IntTupleLess(r1, r2)

\* _BaseVersion.__eq__: self._key == other._key
VersionEq(v1, v2) ==
    IF IsLegacy(v1) /\ IsLegacy(v2)
    THEN legacy_cmpkey(v1._version) = legacy_cmpkey(v2._version)
    ELSE IF IsLegacy(v1) \/ IsLegacy(v2) THEN FALSE
    ELSE /\ StripZeros(v1._version.release) = StripZeros(v2._version.release)
         /\ v1._version.post = v2._version.post

(***************************************************************************)
(* CveUtils                                                                *)
(***************************************************************************)
\* get_base_release with the LegacyVersion branch keeping only the major segment
get_base_release_major(full_ver) ==
    IF IsLegacy(full_ver)
    THEN parse(Join(Take(Split(full_ver._version), 1)))
    ELSE parse(Join(StrEach(Take(full_ver._version.release, 2))))

get_base_release(full_ver) ==
    IF IsLegacy(full_ver)
    THEN parse(Join(Take(Split(full_ver._version), 2)))
    ELSE parse(Join(StrEach(Take(full_ver._version.release, 2))))

to_raw_version(v) ==
    IF ~IsLegacy(v) THEN Join(StrEach(v._version.release))
    ELSE v._version

\* (v1 > v2) - (v1 < v2)
basic_compare(v1, v2) ==
    (IF VersionLess(v2, v1) THEN 1 ELSE 0) - (IF VersionLess(v1, v2) THEN 1 ELSE 0)

\* the operands version_compare hands to basic_compare, without the strip('v')
version_compare_operands_nostrip(v1, v2) ==
    <<LegacyVersion(to_raw_version(v1)), LegacyVersion(to_raw_version(v2))>>

\* new_v1, new_v2 of version_compare
version_compare_operands(v1, v2) ==
    <<LegacyVersion(StripV(to_raw_version(v1))), LegacyVersion(StripV(to_raw_version(v2)))>>

version_compare(v1, v2) ==
    LET new == version_compare_operands(v1, v2)
    IN  basic_compare(new[1], new[2])

\* version_compare_func left at its default whatever check_v is
version_compare_func_default(check_v) == "basic_compare"

\* the choice of version_compare_func in is_vulnerable
version_compare_func(check_v) ==
    IF IsLegacy(check_v) THEN "version_compare" ELSE "basic_compare"

\* the record of one comparison: the function used, the two objects that
\* reach basic_compare, and the value returned
Compared(phase, index, func, ops) ==
    [phase |-> phase, index |-> index, func |-> func,
     v1 |-> ops[1], v2 |-> ops[2], outcome |-> basic_compare(ops[1], ops[2])]

\* one evaluation of version_compare_func(check_v, fix_v) against entry `index`
Comparison(phase, index, func, check_v, fix_v) ==
    IF func = "version_compare"
    THEN Compared(phase, index, func, version_compare_operands(check_v, fix_v))
    ELSE Compared(phase, index, func, <<check_v, fix_v>>)

\* `if version_compare_func(check_v, fix_v) == -1: vulnerable = True`
marks_vulnerable(c) == c.outcome = -1

\* a break that is taken at the first entry of the same base release
leaves_loop_always(c) == TRUE

\* the break sits under the same `if`
leaves_loop(c) == c.outcome = -1

\* the comparisons of the loop from an entry of the same base release on:
\* c is the comparison with that entry, rest those of the entries after it
same_base(c, rest) == IF leaves_loop(c) THEN <<c>> ELSE <<c>> \o rest

\* the for loop of is_vulnerable from entry i on: the comparisons it makes
RECURSIVE scan(_, _, _, _, _)
scan(fix, i, check_v, base_check_v, func) ==
    IF i > Len(fix) THEN <<>>
    ELSE IF VersionEq(base_check_v, get_base_release(parse(fix[i])))
    THEN same_base(Comparison("scan", i, func, check_v, parse(fix[i])),
                   scan(fix, i + 1, check_v, base_check_v, func))
    ELSE scan(fix, i + 1, check_v, base_check_v, func)

\* check_version in fix_versions
InTable(fix, check) == \E k \in 1..Len(fix) : fix[k] = check

\* `if check_version not in fix_versions:` and the loop under it
scan_table(fix, check, check_v, func) ==
    IF ~InTable(fix, check) THEN scan(fix, 1, check_v, get_base_release(check_v), func)
    ELSE <<>>

\* the fallback taking the last entry of the table
fallback_entry_last(fix) == fix[Len(fix)]

\* fix_versions[0]
fallback_entry(fix) == fix[1]

\* the value returned once the fallback comparison c is made
returned(scanned, c) ==
    [raised |-> FALSE, vulnerable |-> (c.outcome = -1), compared |-> Append(scanned, c)]

\* the fallback returning False on an empty table
fallback_guarded(fix, check_v, func, scanned) ==
    IF scanned # <<>> /\ marks_vulnerable(scanned[Len(scanned)])
    THEN [raised |-> FALSE, vulnerable |-> TRUE, compared |-> scanned]
    ELSE IF Len(fix) = 0
    THEN [raised |-> FALSE, vulnerable |-> FALSE, compared |-> scanned]
    ELSE returned(scanned, Comparison("fallback", 1, func, check_v, parse(fallback_entry(fix))))

\* `if not vulnerable and version_compare_func(check_v, parse(fix_versions[0])) == -1`
\* and the return; fix_versions[0] raises IndexError on an empty table
fallback(fix, check_v, func, scanned) ==
    IF scanned # <<>> /\ marks_vulnerable(scanned[Len(scanned)])
    THEN [raised |-> FALSE, vulnerable |-> TRUE, compared |-> scanned]
    ELSE IF Len(fix) = 0
    THEN [raised |-> TRUE, vulnerable |-> FALSE, compared |-> scanned]
    ELSE returned(scanned, Comparison("fallback", 1, func, check_v, parse(fallback_entry(fix))))

\* is_vulnerable once check_v is parsed
is_vulnerable_of(fix, check, check_v) ==
    fallback(fix, check_v, version_compare_func(check_v),
             scan_table(fix, check, check_v, version_compare_func(check_v)))

is_vulnerable(fix, check) == is_vulnerable_of(fix, check, parse(check))

(***************************************************************************)
(* The hunters                                                             *)
(***************************************************************************)
fix_versions_cve_2018_1002105 ==
    << <<"1", ".", "1", "0", ".", "1", "1">>,
       <<"1", ".", "1", "1", ".", "5">>,
       <<"1", ".", "1", "2", ".", "3">> >>

fix_versions_cve_2019_1002100 ==
    << <<"1", ".", "1", "1", ".", "8">>,
       <<"1", ".", "1", "2", ".", "6">>,
       <<"1", ".", "1", "3", ".", "4">> >>

\* ['1.11.9', '1.12.7', '1.13.5' '1.14.0']: the last two literals are adjacent
cve_2019_1002101_fix_versions ==
    << <<"1", ".", "1", "1", ".", "9">>,
       <<"1", ".", "1", "2", ".", "7">>,
       <<"1", ".", "1", "3", ".", "5">> \o <<"1", ".", "1", "4", ".", "0">> >>

cve_2019_11246_fix_versions ==
    << <<"1", ".", "1", "2", ".", "9">>,
       <<"1", ".", "1", "3", ".", "6">>,
       <<"1", ".", "1", "4", ".", "2">> >>

Finding(kind, version) == [kind |-> kind, version |-> version]

\* execute with the second check chained to the first by elif
K8sClusterCveHunter_execute_elif(version) ==
    IF is_vulnerable(fix_versions_cve_2018_1002105, version).vulnerable
    THEN <<Finding("ServerApiVersionEndPointAccessPE", version)>>
    ELSE IF is_vulnerable(fix_versions_cve_2019_1002100, version).vulnerable
    THEN <<Finding("ServerApiVersionEndPointAccessDos", version)>>
    ELSE <<>>

\* the events K8sClusterCveHunter.execute publishes, in order
K8sClusterCveHunter_execute(version) ==
    (IF is_vulnerable(fix_versions_cve_2018_1002105, version).vulnerable
     THEN <<Finding("ServerApiVersionEndPointAccessPE", version)>> ELSE <<>>)
    \o
    (IF is_vulnerable(fix_versions_cve_2019_1002100, version).vulnerable
     THEN <<Finding("ServerApiVersionEndPointAccessDos", version)>> ELSE <<>>)

\* the events KubectlCVEHunter.execute publishes, in order
KubectlCVEHunter_execute(version) ==
    (IF is_vulnerable(cve_2019_1002101_fix_versions, version).vulnerable
     THEN <<Finding("KubectlCpVulnerability", version)>> ELSE <<>>)
    \o
    (IF is_vulnerable(cve_2019_11246_fix_versions, version).vulnerable
     THEN <<Finding("IncompleteFixToKubectlCpVulnerability", version)>> ELSE <<>>)

(***************************************************************************)
(* Inputs                                                                  *)
(***************************************************************************)
MaxTable == 2

Dash(c) == <<"-", c>>

\* prefix + dotted numbers + suffix
Build(prefix, nums, suffix) == prefix \o Join(StrEach(nums)) \o suffix

Prefixes == {<<>>, <<"v">>}

FixStrings ==
    {Build(<<>>, <<1, m, p>>, <<>>) : m \in {9, 11}, p \in {5, 11}}
    \cup {Build(<<>>, <<1, 9, 5>>, Dash("g")), Build(<<>>, <<1, 11, 11>>, Dash("g"))}

Tables == UNION {[1..n -> FixStrings] : n \in 0..MaxTable}

CheckVersions ==
    {Build(pre, <<1, m, p>>, x) : pre \in Prefixes, m \in {9, 10, 11}, p \in {4, 5, 6, 12},
                                  x \in {<<>>, Dash("g"), Dash("1"), Dash("d")}}
    \cup {<<"g">>, <<"v", "g">>, <<"1">>, <<"1", ".", "9">>,
          <<"1", ".", "0", "9", ".", "0", "5">>, <<"1", ".", "9", ".", "6", "v">>,
          <<"2", ".", "0", ".", "0">>, <<"1", ".", "9", "-", "g", ".", "4">>}

EventVersions ==
    {Build(pre, <<1, m, p>>, x) : pre \in Prefixes, m \in {10, 11, 12, 13, 14},
                                  p \in {0, 3, 5, 7, 9}, x \in {<<>>, Dash("g")}}

Hunters == {"K8sClusterCveHunter", "KubectlCVEHunter"}

(***************************************************************************)
(* State machine                                                           *)
(***************************************************************************)
\* either a call of CveUtils.is_vulnerable about to be made, or a hunter
\* constructed on an event that carries a version
Init ==
    /\ pc = "start"
    /\ raised = FALSE
    /\ vulnerable = FALSE
    /\ compared = <<>>
    /\ published = <<>>
    /\ \/ /\ hunter = "none"
          /\ event = <<>>
          /\ fix_versions \in Tables
          /\ check_version \in CheckVersions
       \/ /\ hunter \in Hunters
          /\ event \in EventVersions
          /\ fix_versions = <<>>
          /\ check_version = <<>>

\* the call ends with the result r
Return(r) ==
    /\ raised' = r.raised
    /\ vulnerable' = r.vulnerable
    /\ compared' = r.compared

\* CveUtils.is_vulnerable(fix_versions, check_version)
IsVulnerable ==
    /\ pc = "start"
    /\ hunter = "none"
    /\ Return(is_vulnerable(fix_versions, check_version))
    /\ pc' = "done"
    /\ UNCHANGED <<fix_versions, check_version, hunter, event, published>>

\* K8sClusterCveHunter.execute
K8sExecute ==
    /\ pc = "start"
    /\ hunter = "K8sClusterCveHunter"
    /\ published' = published \o K8sClusterCveHunter_execute(event)
    /\ pc' = "done"
    /\ UNCHANGED <<fix_versions, check_version, raised, vulnerable, compared, hunter, event>>

\* KubectlCVEHunter.execute
KubectlExecute ==
    /\ pc = "start"
    /\ hunter = "KubectlCVEHunter"
    /\ published' = published \o KubectlCVEHunter_execute(event)
    /\ pc' = "done"
    /\ UNCHANGED <<fix_versions, check_version, raised, vulnerable, compared, hunter, event>>

Next == IsVulnerable \/ K8sExecute \/ KubectlExecute

Spec == Init /\ [][Next]_vars

(***************************************************************************)
(* Properties                                                              *)
(***************************************************************************)
\* a call of is_vulnerable has returned or raised
Returned == pc = "done" /\ hunter = "none"

\* check and the table entry fix are on the same release line
SameLine(check, fix) ==
    VersionEq(get_base_release(parse(check)), get_base_release(parse(fix)))

\* check compares strictly less than fix, by the comparison is_vulnerable uses for check
StrictlyLess(check, fix) ==
    IF IsLegacy(parse(check)) THEN version_compare(parse(check), parse(fix)) = -1
    ELSE basic_compare(parse(check), parse(fix)) = -1

Entries(fix) == 1..Len(fix)

HasPrefix(s, p) == Len(p) <= Len(s) /\ SubSeq(s, 1, Len(p)) = p

Count(findings, kind) == Cardinality({k \in 1..Len(findings) : findings[k].kind = kind})

\* C1: a check version that is not an entry of the table, and that is strictly
\* less than some entry of its own release line, is vulnerable.
C1_SameLineOlderIsVulnerable ==
    (/\ Returned
     /\ fix_versions # <<>>
     /\ ~InTable(fix_versions, check_version)
     /\ \E k \in Entries(fix_versions) :
            /\ SameLine(check_version, fix_versions[k])
            /\ StrictlyLess(check_version, fix_versions[k]))
    => (~raised /\ vulnerable)

\* the qualifying entry comes after an entry of the same line that does not qualify
C1_Witness ==
    /\ Returned
    /\ ~InTable(fix_versions, check_version)
    /\ vulnerable
    /\ \E j, k \in Entries(fix_versions) :
           /\ j < k
           /\ SameLine(check_version, fix_versions[j])
           /\ ~StrictlyLess(check_version, fix_versions[j])
           /\ SameLine(check_version, fix_versions[k])
           /\ StrictlyLess(check_version, fix_versions[k])

\* C2: a check version that is textually an entry of the table is never
\* vulnerable, whatever the order of the table.
C2_ExactMatchNeverVulnerable ==
    (Returned /\ InTable(fix_versions, check_version)) => (~raised /\ ~vulnerable)

\* C3: when no entry is on the release line of the check version, the result
\* is vulnerable exactly when the check version is strictly less than the
\* first entry of the table.
C3_AbsentLineFallsBackToFirst ==
    (/\ Returned
     /\ fix_versions # <<>>
     /\ \A k \in Entries(fix_versions) : ~SameLine(check_version, fix_versions[k]))
    => (~raised /\ (vulnerable <=> StrictlyLess(check_version, fix_versions[1])))

\* an absent line, older than the first entry and not older than the last one
C3_Witness ==
    /\ Returned
    /\ Len(fix_versions) >= 2
    /\ \A k \in Entries(fix_versions) : ~SameLine(check_version, fix_versions[k])
    /\ StrictlyLess(check_version, fix_versions[1])
    /\ ~StrictlyLess(check_version, fix_versions[Len(fix_versions)])
    /\ vulnerable

\* C4: with a non-empty table and a Legacy check version the call does not
\* raise, returns a boolean, and every comparison it makes is a comparison of
\* two legacy versions made by version_compare, the last of which decides it.
C4_LegacyCheckReturnsBoolean ==
    (Returned /\ fix_versions # <<>> /\ IsLegacy(parse(check_version)))
    => (/\ ~raised
        /\ vulnerable \in BOOLEAN
        /\ compared # <<>>
        /\ \A k \in 1..Len(compared) :
               /\ compared[k].func = "version_compare"
               /\ IsLegacy(compared[k].v1)
               /\ IsLegacy(compared[k].v2)
        /\ vulnerable <=> (compared[Len(compared)].outcome = -1))

\* a purely non-numeric tag has been checked against a table
C4_Witness ==
    /\ Returned
    /\ check_version = <<"g">>
    /\ Len(fix_versions) >= 2
    /\ ~raised
    /\ vulnerable

\* C5: a call with an empty table raises, for every check version.
C5_EmptyTableRaises ==
    (Returned /\ fix_versions = <<>>) => raised

C5_Witness ==
    /\ Returned
    /\ fix_versions = <<>>
    /\ raised
    /\ IsLegacy(parse(check_version))

\* C6: one execute of a hunter publishes, for each of its two tables, one
\* finding of the kind of the table when is_vulnerable holds of the version of
\* the event and none when it does not, and nothing else.
C6_BothChecksIndependent ==
    /\ (pc = "done" /\ hunter = "K8sClusterCveHunter") =>
           /\ Count(published, "ServerApiVersionEndPointAccessPE") =
                  (IF is_vulnerable(fix_versions_cve_2018_1002105, event).vulnerable THEN 1 ELSE 0)
           /\ Count(published, "ServerApiVersionEndPointAccessDos") =
                  (IF is_vulnerable(fix_versions_cve_2019_1002100, event).vulnerable THEN 1 ELSE 0)
           /\ \A k \in 1..Len(published) :
                  /\ published[k].version = event
                  /\ published[k].kind \in {"ServerApiVersionEndPointAccessPE",
                                            "ServerApiVersionEndPointAccessDos"}
    /\ (pc = "done" /\ hunter = "KubectlCVEHunter") =>
           /\ Count(published, "KubectlCpVulnerability") =
                  (IF is_vulnerable(cve_2019_1002101_fix_versions, event).vulnerable THEN 1 ELSE 0)
           /\ Count(published, "IncompleteFixToKubectlCpVulnerability") =
                  (IF is_vulnerable(cve_2019_11246_fix_versions, event).vulnerable THEN 1 ELSE 0)
           /\ \A k \in 1..Len(published) :
                  /\ published[k].version = event
                  /\ published[k].kind \in {"KubectlCpVulnerability",
                                            "IncompleteFixToKubectlCpVulnerability"}
    /\ Len(published) <= 2

\* both checks of one execute have fired
C6_Witness ==
    /\ pc = "done"
    /\ hunter = "K8sClusterCveHunter"
    /\ Len(published) = 2
    /\ published[1].kind = "ServerApiVersionEndPointAccessPE"
    /\ published[2].kind = "ServerApiVersionEndPointAccessDos"

\* the object Version("M.N")
BaseOf(M, N) == [type |-> "Version", _version |-> [release |-> <<M, N>>, post |-> NoPost]]

\* check begins with M.N. or vM.N.
OnLine(check, M, N) ==
    \E pre \in {<<>>, <<"v">>} :
        HasPrefix(check, pre \o StrOfNat(M) \o <<".">> \o StrOfNat(N) \o <<".">>)

\* entry k of the table is a Strict version of release line M.N
StrictEntryOnLine(fix, k, M, N) ==
    /\ ~IsLegacy(parse(fix[k]))
    /\ Len(parse(fix[k])._version.release) >= 2
    /\ parse(fix[k])._version.release[1] = M
    /\ parse(fix[k])._version.release[2] = N

\* C7: the base release of a check version that begins with M.N. (or vM.N.),
\* Strict or Legacy, is M.N; and the scan compares it with the Strict entries
\* of line M.N it reaches.
C7_BaseReleaseOfLegacy ==
    Returned =>
        \A M \in 0..2, N \in 0..12 :
            OnLine(check_version, M, N) =>
                /\ get_base_release(parse(check_version)) = BaseOf(M, N)
                /\ \A k \in Entries(fix_versions) :
                       (/\ ~InTable(fix_versions, check_version)
                        /\ StrictEntryOnLine(fix_versions, k, M, N)
                        /\ \A c \in 1..Len(compared) :
                               (compared[c].phase = "scan" /\ compared[c].index < k)
                                   => compared[c].outcome # -1)
                       => \E c \in 1..Len(compared) :
                              compared[c].phase = "scan" /\ compared[c].index = k

\* a Legacy check version with a leading v has been compared in the scan with
\* a Strict entry of its line
C7_Witness ==
    /\ Returned
    /\ IsLegacy(parse(check_version))
    /\ HasPrefix(check_version, <<"v", "1", ".", "1", "1", ".">>)
    /\ \E c \in 1..Len(compared) :
           /\ compared[c].phase = "scan"
           /\ StrictEntryOnLine(fix_versions, compared[c].index, 1, 11)

NoLeadingV(v) == v._version = <<>> \/ Head(v._version) # "v"

C9_FallbackOnlyWithoutSameLine ==
    (/\ Returned
     /\ fix_versions # <<>>
     /\ \E k \in Entries(fix_versions) : SameLine(check_version, fix_versions[k])
     /\ \A k \in Entries(fix_versions) :
            SameLine(check_version, fix_versions[k])
                => ~StrictlyLess(check_version, fix_versions[k]))
    => (~raised /\ ~vulnerable)

\* the fix versions of CVE-2019-1002101, one per release line
intended_cve_2019_1002101 ==
    << <<"1", ".", "1", "1", ".", "9">>,
       <<"1", ".", "1", "2", ".", "7">>,
       <<"1", ".", "1", "3", ".", "5">>,
       <<"1", ".", "1", "4", ".", "0">> >>

\* C10: KubectlCVEHunter publishes no KubectlCpVulnerability for a client
\* version at or above the fixed version of its own release line.
C10_NoFindingAtOrAboveFix ==
    (/\ pc = "done"
     /\ hunter = "KubectlCVEHunter"
     /\ \E k \in Entries(intended_cve_2019_1002101) :
            /\ SameLine(event, intended_cve_2019_1002101[k])
            /\ ~StrictlyLess(event, intended_cve_2019_1002101[k]))
    => Count(published, "KubectlCpVulnerability") = 0

====
